---------------------------- MODULE Spec2Model ----------------------------
(***************************************************************************)
(* Verification model of the garuda-accelerator verification harness       *)
(* (garuda/dv/test_mac.py) and of the CVA6 file-list resolver              *)
(* (integration/extract_cva6_files.py).                                    *)
(*                                                                         *)
(* Python integers are unbounded while TLC's are 32 bits wide, so every    *)
(* Python integer that can leave the 31-bit range (the packed operand      *)
(* words, the accumulator, the expected value) is held as a "wide"         *)
(* integer: a record [hi, lo] of value hi * 2^16 + lo with 0 <= lo < 2^16. *)
(* The representation is unique, so equality of wides is equality of the   *)
(* integers they stand for.                                                *)
(***************************************************************************)
EXTENDS Integers, Sequences, FiniteSets, TLC

VARIABLES
    fnIn, fnOut,                 \* pure-function check: arguments, last result
    test, pc, i, vec,            \* harness: running test case, position, loop index, locals
    ports,                       \* DUT input ports as last written
    dutQ, dutOut,                \* DUT output register, and what a read of result_o/valid_o returns
    toEdge, timer,               \* simulator: ns to the next rising edge, ns left on Timer
    verdict, diag, logged,       \* outcome of each test case, failure message, summary line
    ghost,                       \* history counters used only by the properties
    fs, stack, processed, reads, ret, fdone, steps   \* file-list resolver

fnVars == <<fnIn, fnOut>>
hVars  == <<test, pc, i, vec, ports, dutQ, dutOut, toEdge, timer, verdict, diag, logged, ghost>>
fVars  == <<fs, stack, processed, reads, ret, fdone, steps>>
vars   == <<fnIn, fnOut, test, pc, i, vec, ports, dutQ, dutOut, toEdge, timer,
            verdict, diag, logged, ghost, fs, stack, processed, reads, ret, fdone, steps>>

---------------------------------------------------------------------------
(* Wide integers *)

Limb == 2^16

Wide(n) == [hi |-> n \div Limb, lo |-> n % Limb]

WPlus(a, b) ==
    LET s == a.lo + b.lo
    IN  [hi |-> a.hi + b.hi + (s \div Limb), lo |-> s % Limb]

WMinus(a, b) ==
    LET s == a.lo - b.lo
    IN  [hi |-> a.hi - b.hi + (s \div Limb), lo |-> s % Limb]

WGreater(a, b) == a.hi > b.hi \/ (a.hi = b.hi /\ a.lo > b.lo)

WLess(a, b) == WGreater(b, a)

\* the literals of test_mac.py that do not fit 31 bits
INT32_MAX == [hi |-> 32767, lo |-> 65535]      \* 2147483647
INT32_MIN == [hi |-> -32768, lo |-> 0]         \* -2147483648
POW32     == [hi |-> 65536, lo |-> 0]          \* 4294967296

\* Python's x | y on two's-complement integers of any sign
RECURSIVE BitOr(_, _)
BitOr(x, y) ==
    IF x = 0 THEN y
    ELSE IF y = 0 THEN x
    ELSE IF x = -1 \/ y = -1 THEN -1
    ELSE 2 * BitOr(x \div 2, y \div 2) + (IF x % 2 = 1 \/ y % 2 = 1 THEN 1 ELSE 0)

WOr(a, b) == [hi |-> BitOr(a.hi, b.hi), lo |-> BitOr(a.lo, b.lo)]

\* Python's x << n for n a multiple of 8 up to 24 and |x| < 2^23
RECURSIVE WShl(_, _)
WShl(a, n) ==
    IF n >= 16 THEN WShl([hi |-> a.hi * Limb + a.lo, lo |-> 0], n - 16)
    ELSE LET s == a.lo * (2^n)
         IN  [hi |-> a.hi * (2^n) + (s \div Limb), lo |-> s % Limb]

\* Python's x >> n (floor division by 2^n)
RECURSIVE WShr(_, _)
WShr(a, n) ==
    IF n >= 16 THEN WShr([hi |-> a.hi \div Limb, lo |-> a.hi % Limb], n - 16)
    ELSE [hi |-> a.hi \div (2^n),
          lo |-> (a.lo \div (2^n)) + (a.hi % (2^n)) * (2^(16 - n))]

\* Python's x & 0xFF on a wide x, and on a small integer b
WMask8(a) == a.lo % 256

\* variant: the mask left out
MaskNone(b) == b
Mask8(b) == b % 256

---------------------------------------------------------------------------
(* test_mac.py: the pure computations *)

\* get_signed_bytes(val), lane k of the result at index k + 1
\* variant: bytes of 128 and more not folded to negative values
SignedByteNoFold(val, k) == WMask8(WShr(val, k * 8))
SignedByte(val, k) ==
    LET byte == WMask8(WShr(val, k * 8))
    IN  IF byte >= 128 THEN byte - 256 ELSE byte

get_signed_bytes(val) == [k \in 1..4 |-> SignedByte(val, k - 1)]

\* the packing loop of test_simd_dot: val |= (bytes[b_idx] & 0xFF) << (b_idx*8)
RECURSIVE PackFrom(_, _, _)
PackFrom(bytes, b_idx, val) ==
    IF b_idx = 4 THEN val
    ELSE PackFrom(bytes, b_idx + 1,
                  WOr(val, WShl(Wide(Mask8(bytes[b_idx + 1])), b_idx * 8)))

Pack(bytes) == PackFrom(bytes, 0, Wide(0))

\* dot_product of test_simd_dot
RECURSIVE DotFrom(_, _, _)
DotFrom(a, b, k) ==
    IF k = 4 THEN 0 ELSE a[k + 1] * b[k + 1] + DotFrom(a, b, k + 1)

DotProduct(a, b) == DotFrom(a, b, 0)

\* expected of test_simd_dot: the sum, then one conditional correction
\* variant: clamping instead of wrapping
WrapSaturate(e) ==
    IF WGreater(e, INT32_MAX) THEN INT32_MAX
    ELSE IF WLess(e, INT32_MIN) THEN INT32_MIN
    ELSE e
WrapOnce(e) ==
    IF WGreater(e, INT32_MAX) THEN WMinus(e, POW32)
    ELSE IF WLess(e, INT32_MIN) THEN WPlus(e, POW32)
    ELSE e

SimdSum(rs1_bytes, rs2_bytes, acc_val) ==
    WPlus(Wide(DotProduct(rs1_bytes, rs2_bytes)), acc_val)

SimdExpected(rs1_bytes, rs2_bytes, acc_val) ==
    WrapOnce(SimdSum(rs1_bytes, rs2_bytes, acc_val))

\* expected of test_mac8_legacy
Mac8Expected(x, y, acc) == (x * y) + acc

---------------------------------------------------------------------------
(* Reference notions the properties compare the code with *)

\* x mod 2^32 mapped back into [-2^31, 2^31 - 1]
Mod32Signed(x) == [hi |-> ((x.hi + 32768) % Limb) - 32768, lo |-> x.lo]

InInt32(x)  == x.hi >= -32768 /\ x.hi <= 32767 /\ x.lo >= 0 /\ x.lo < Limb
InUInt32(x) == x.hi >= 0 /\ x.hi < Limb /\ x.lo >= 0 /\ x.lo < Limb

\* sign extension of the low 8 bits of n
SignExt8(n) == IF n % 256 >= 128 THEN (n % 256) - 256 ELSE n % 256

---------------------------------------------------------------------------
(* Values left untouched by a specification that does not use them *)

Idle == "idle"

FnIdle == fnIn = Idle /\ fnOut = Idle

---------------------------------------------------------------------------
(* SpecFn: the pure computations of test_mac.py applied to drawn arguments *)

LaneVals  == {-128, -1, 0, 1, 127}
SignVals  == {-128, 127}
DotLanes  == {-128, -1, 127}
ByteVals  == {-128, -5, -1, 0, 10, 20, 127}
AccVals   == {[hi |-> h, lo |-> l] : h \in {-32768, -32767, -1, 0, 32766, 32767},
                                     l \in {0, 1, 65535}}

Vec4(S) == [1..4 -> S]

FnInit ==
    /\ fnOut = [op |-> "none"]
    /\ \/ \E b \in Vec4(LaneVals) : fnIn = [call |-> "pack", bytes |-> b]
       \/ \E a \in Vec4(DotLanes), b \in Vec4(SignVals), acc \in AccVals :
              fnIn = [call |-> "simd", rs1_bytes |-> a, rs2_bytes |-> b, acc_val |-> acc]
       \/ \E a \in ByteVals, b \in ByteVals, c \in ByteVals :
              fnIn = [call |-> "mac8", rs1_byte |-> a, rs2_byte |-> b, acc_byte |-> c]

\* pack four lanes as test_simd_dot does, then decompose with get_signed_bytes
FnPack ==
    /\ fnIn.call = "pack" /\ fnOut.op = "none"
    /\ fnOut' = [op |-> "pack", word |-> Pack(fnIn.bytes),
                 lanes |-> get_signed_bytes(Pack(fnIn.bytes))]
    /\ UNCHANGED fnIn
    /\ UNCHANGED <<hVars, fVars>>

FnSimd ==
    /\ fnIn.call = "simd" /\ fnOut.op = "none"
    /\ fnOut' = [op |-> "simd",
                 expected |-> SimdExpected(fnIn.rs1_bytes, fnIn.rs2_bytes, fnIn.acc_val)]
    /\ UNCHANGED fnIn
    /\ UNCHANGED <<hVars, fVars>>

FnMac8 ==
    /\ fnIn.call = "mac8" /\ fnOut.op = "none"
    /\ fnOut' = [op |-> "mac8",
                 expected |-> Mac8Expected(fnIn.rs1_byte, fnIn.rs2_byte, fnIn.acc_byte)]
    /\ UNCHANGED fnIn
    /\ UNCHANGED <<hVars, fVars>>

---------------------------------------------------------------------------
(* test_mac.py: constants *)

OP_ILLEGAL  == 0
OP_MAC8     == 1
OP_MAC8_ACC == 2
OP_MUL8     == 3
OP_CLIP8    == 4
OP_SIMD_DOT == 5

ClockPeriod == 10       \* Clock(dut.clk_i, 10, units="ns")
ResetSettle == 20       \* await Timer(20, units="ns")

\* the directed vector of test_mac8_legacy
rs1_byte == 10
rs2_byte == -5
acc_byte == 20

\* iterations of the loop of test_simd_dot (1000 in the source)
NumVectors == 2

\* the vectors random.randint may draw, cut to a few that reach both wrap directions
Vectors ==
    {[rs1_bytes |-> a, rs2_bytes |-> b, acc_val |-> c] :
        a \in {<<127, 127, 127, 127>>, <<1, 0, -1, -128>>},
        b \in {<<127, 127, 127, 127>>},
        c \in {INT32_MAX, INT32_MIN, Wide(-1)}}

NoVec == [rs1_bytes |-> <<0, 0, 0, 0>>, rs2_bytes |-> <<0, 0, 0, 0>>, acc_val |-> Wide(0)]

---------------------------------------------------------------------------
(* The DUT and the simulator, as the harness's comments and the design    *)
(* describe them: a combinational stage feeding one output register that  *)
(* is loaded at each rising edge; a read made by the harness right after  *)
(* an awaited edge returns sees the register as it was before that edge.  *)

\* the data inputs a register value was computed from
Inputs(p) == [rs1_i |-> p.rs1_i, rs2_i |-> p.rs2_i, rd_i |-> p.rd_i, opcode_i |-> p.opcode_i]

ZeroInputs == [rs1_i |-> Wide(0), rs2_i |-> Wide(0), rd_i |-> Wide(0), opcode_i |-> 0]

Undef == [def |-> FALSE, result |-> Wide(0), valid |-> 0, src |-> ZeroInputs, rst |-> FALSE]

ResetValue == [def |-> TRUE, result |-> Wide(0), valid |-> 0, src |-> ZeroInputs, rst |-> TRUE]

\* what a correct combinational stage computes
DutGolden(p) ==
    IF p.opcode_i = OP_SIMD_DOT
    THEN SimdExpected(get_signed_bytes(Mod32Signed(p.rs1_i)),
                      get_signed_bytes(Mod32Signed(p.rs2_i)), Mod32Signed(p.rd_i))
    ELSE IF p.opcode_i = OP_MAC8
    THEN Wide(SignExt8(SignedByte(p.rs1_i, 0) * SignedByte(p.rs2_i, 0) + SignedByte(p.rd_i, 0)))
    ELSE Wide(0)

\* the DUT is a black box to the harness: it may answer wrongly, or without valid
DutBehaviours == {<<FALSE, 1>>, <<TRUE, 1>>, <<FALSE, 0>>}

DutNext(q, p, beh) ==
    IF ~p.known THEN Undef
    ELSE IF p.rst_ni = 0 THEN ResetValue
    ELSE [def    |-> TRUE,
          result |-> IF beh[1] THEN Mod32Signed(WPlus(DutGolden(p), Wide(1))) ELSE DutGolden(p),
          valid  |-> IF p.opcode_i = OP_ILLEGAL THEN 0 ELSE beh[2],
          src    |-> Inputs(p),
          rst    |-> FALSE]

---------------------------------------------------------------------------
(* Spec: the two test cases of test_mac.py run one after the other *)

NoDiag == [none |-> TRUE]

Ghost0 ==
    [edges |-> 0, lowEdges |-> 0, highEdges |-> 0, sinceDrive |-> 0,
     qAtDrive |-> Undef, prevInputs |-> ZeroInputs, portsAtDrive |-> ZeroInputs,
     seen1 |-> Undef, inflight |-> 0]

History0 ==
    [driven |-> [simd |-> 0, mac8 |-> 0], checked |-> [simd |-> 0, mac8 |-> 0],
     agree |-> [simd |-> TRUE, mac8 |-> TRUE], failIter |-> -1, failVec |-> NoVec,
     failExpected |-> Wide(0), failGot |-> Wide(0)]

FIdle ==
    /\ fs = Idle /\ stack = Idle /\ processed = Idle /\ reads = Idle /\ ret = Idle
    /\ fdone = Idle /\ steps = Idle

HIdle ==
    /\ test = Idle /\ pc = Idle /\ i = Idle /\ vec = Idle /\ ports = Idle /\ dutQ = Idle
    /\ dutOut = Idle /\ toEdge = Idle /\ timer = Idle /\ verdict = Idle /\ diag = Idle
    /\ logged = Idle /\ ghost = Idle

Init ==
    /\ FnIdle /\ FIdle
    /\ test = "simd" /\ pc = "reset_write" /\ i = 0 /\ vec = NoVec
    /\ ports = [known |-> FALSE, rst_ni |-> 0, rs1_i |-> Wide(0), rs2_i |-> Wide(0),
                rd_i |-> Wide(0), opcode_i |-> 0, hartid_i |-> 0, id_i |-> 0, rd_addr_i |-> 0]
    /\ dutQ = Undef /\ dutOut = Undef
    /\ toEdge \in {0, ClockPeriod} /\ timer = -1
    /\ verdict = [simd |-> "none", mac8 |-> "none"]
    /\ diag = [simd |-> NoDiag, mac8 |-> NoDiag]
    /\ logged = FALSE
    /\ ghost = [now |-> Ghost0, all |-> History0]

\* reset_dut up to its Timer: rst_ni low, every input zero
\* variant: rst_ni not asserted
ResetWriteHigh ==
    /\ pc = "reset_write"
    /\ ports' = [known |-> TRUE, rst_ni |-> 1, rs1_i |-> Wide(0), rs2_i |-> Wide(0),
                 rd_i |-> Wide(0), opcode_i |-> 0, hartid_i |-> 0, id_i |-> 0, rd_addr_i |-> 0]
    /\ timer' = ResetSettle
    /\ pc' = "reset_timer"
    /\ UNCHANGED <<test, i, vec, dutQ, dutOut, toEdge, verdict, diag, logged, ghost>>
    /\ UNCHANGED <<fnVars, fVars>>
ResetWrite ==
    /\ pc = "reset_write"
    /\ ports' = [known |-> TRUE, rst_ni |-> 0, rs1_i |-> Wide(0), rs2_i |-> Wide(0),
                 rd_i |-> Wide(0), opcode_i |-> 0, hartid_i |-> 0, id_i |-> 0, rd_addr_i |-> 0]
    /\ timer' = ResetSettle
    /\ pc' = "reset_timer"
    /\ UNCHANGED <<test, i, vec, dutQ, dutOut, toEdge, verdict, diag, logged, ghost>>
    /\ UNCHANGED <<fnVars, fVars>>

\* the Timer of reset_dut expires: rst_ni is deasserted and a rising edge awaited
TimerFire ==
    /\ pc = "reset_timer"
    /\ timer <= toEdge
    /\ toEdge' = toEdge - timer
    /\ timer' = -1
    /\ ports' = [ports EXCEPT !.rst_ni = 1]
    /\ pc' = "reset_edge"
    /\ UNCHANGED <<test, i, vec, dutQ, dutOut, verdict, diag, logged, ghost>>
    /\ UNCHANGED <<fnVars, fVars>>

\* where the harness continues when the rising edge it awaits has come
\* variant: the second await of each vector left out
ResumeOneEdge(p) ==
    CASE p = "reset_edge" -> IF test = "simd" THEN "gen" ELSE "m_drive"
      [] p = "edge1"      -> "check"
      [] p = "edge2"      -> "check"
      [] p = "m_edge1"    -> "m_check"
      [] p = "m_edge2"    -> "m_check"
      [] OTHER            -> p
Resume(p) ==
    CASE p = "reset_edge" -> IF test = "simd" THEN "gen" ELSE "m_drive"
      [] p = "edge1"      -> "edge2"
      [] p = "edge2"      -> "check"
      [] p = "m_edge1"    -> "m_edge2"
      [] p = "m_edge2"    -> "m_check"
      [] OTHER            -> p

AllZero(p) ==
    /\ Inputs(p) = ZeroInputs
    /\ p.hartid_i = 0 /\ p.id_i = 0 /\ p.rd_addr_i = 0

AfterDrive(p) == p \in {"edge1", "edge2", "m_edge1", "m_edge2"}

\* a rising edge of the free-running clock
ClockEdge ==
    /\ test # "end"
    /\ \/ pc \in {"reset_edge", "edge1", "edge2", "m_edge1", "m_edge2"}
       \/ pc = "reset_timer" /\ timer >= toEdge
       \/ pc = "reset_write" /\ toEdge = 0
    /\ \E beh \in DutBehaviours : dutQ' = DutNext(dutQ, ports, beh)
    /\ dutOut' = dutQ
    /\ toEdge' = ClockPeriod
    /\ timer' = IF timer >= 0 THEN timer - toEdge ELSE timer
    /\ pc' = Resume(pc)
    /\ ghost' = [ghost EXCEPT
          !.now.edges = IF AfterDrive(pc) THEN @ + 1 ELSE @,
          !.now.sinceDrive = IF AfterDrive(pc) THEN @ + 1 ELSE @,
          !.now.lowEdges = IF ports.known /\ ports.rst_ni = 0 /\ AllZero(ports) THEN @ + 1 ELSE @,
          !.now.highEdges = IF pc = "reset_edge" THEN @ + 1 ELSE @,
          !.now.seen1 = IF pc \in {"edge1", "m_edge1"} THEN dutQ ELSE @]
    /\ UNCHANGED <<test, i, vec, ports, verdict, diag, logged>>
    /\ UNCHANGED <<fnVars, fVars>>

\* one pass of the loop of test_simd_dot up to its first await: draw, pack, drive
Drive ==
    /\ pc = "gen" /\ i < NumVectors
    /\ \E v \in Vectors :
         /\ vec' = v
         /\ ports' = [ports EXCEPT !.rs1_i = Pack(v.rs1_bytes), !.rs2_i = Pack(v.rs2_bytes),
                                   !.rd_i = v.acc_val, !.opcode_i = OP_SIMD_DOT]
    /\ pc' = "edge1"
    /\ ghost' = [ghost EXCEPT
          !.now.sinceDrive = 0, !.now.qAtDrive = dutQ, !.now.prevInputs = Inputs(ports),
          !.now.portsAtDrive = Inputs(ports'), !.now.inflight = @ + 1,
          !.all.driven.simd = @ + 1]
    /\ UNCHANGED <<test, i, dutQ, dutOut, toEdge, timer, verdict, diag, logged>>
    /\ UNCHANGED <<fnVars, fVars>>

\* the test case returns or raises: the runner goes on to the next one
EndTest(next) ==
    /\ test' = next
    /\ pc' = IF next = "end" THEN "done" ELSE "reset_write"
    /\ i' = 0
    /\ toEdge' \in (IF next = "end" THEN {ClockPeriod} ELSE {0, ClockPeriod})
    /\ timer' = -1

expected == SimdExpected(vec.rs1_bytes, vec.rs2_bytes, vec.acc_val)
got      == dutOut.result
valid    == dutOut.valid

Sampled(t, ok) ==
    [ghost EXCEPT !.all.checked[t] = @ + 1,
                  !.all.agree[t] = @ /\ ok,
                  !.now.inflight = @ - 1]

Failed(t, g) ==
    [g EXCEPT !.all.failIter = i, !.all.failVec = vec,
              !.all.failExpected = expected, !.all.failGot = got,
              !.now = Ghost0]

\* assert valid == 1 fails
CheckValidFail ==
    /\ pc = "check"
    /\ valid # 1
    /\ verdict' = [verdict EXCEPT !.simd = "failed"]
    /\ diag' = [diag EXCEPT !.simd = [text |-> "Output should be valid for SIMD_DOT"]]
    /\ ghost' = Failed("simd", Sampled("simd", FALSE))
    /\ EndTest("mac8")
    /\ UNCHANGED <<vec, ports, dutQ, dutOut, logged>>
    /\ UNCHANGED <<fnVars, fVars>>

\* assert got == expected fails
CheckMismatch ==
    /\ pc = "check"
    /\ valid = 1
    /\ got # expected
    /\ verdict' = [verdict EXCEPT !.simd = "failed"]
    /\ diag' = [diag EXCEPT !.simd =
                  [iter |-> i, rs1 |-> vec.rs1_bytes, rs2 |-> vec.rs2_bytes,
                   acc |-> vec.acc_val, expected |-> expected, got |-> got]]
    /\ ghost' = Failed("simd", Sampled("simd", FALSE))
    /\ EndTest("mac8")
    /\ UNCHANGED <<vec, ports, dutQ, dutOut, logged>>
    /\ UNCHANGED <<fnVars, fVars>>

\* both assertions hold: next iteration
CheckOk ==
    /\ pc = "check"
    /\ valid = 1
    /\ got = expected
    /\ i' = i + 1
    /\ pc' = "gen"
    /\ ghost' = Sampled("simd", TRUE)
    /\ UNCHANGED <<test, vec, ports, dutQ, dutOut, toEdge, timer, verdict, diag, logged>>
    /\ UNCHANGED <<fnVars, fVars>>

\* the loop is over: the summary is logged and the test case passes
SimdPass ==
    /\ pc = "gen" /\ i = NumVectors
    /\ logged' = TRUE
    /\ verdict' = [verdict EXCEPT !.simd = "passed"]
    /\ ghost' = [ghost EXCEPT !.now = Ghost0]
    /\ EndTest("mac8")
    /\ UNCHANGED <<vec, ports, dutQ, dutOut, diag>>
    /\ UNCHANGED <<fnVars, fVars>>

\* test_mac8_legacy: drive the directed vector
Mac8Drive ==
    /\ pc = "m_drive"
    /\ ports' = [ports EXCEPT !.rs1_i = Wide(Mask8(rs1_byte)), !.rs2_i = Wide(Mask8(rs2_byte)),
                              !.rd_i = Wide(Mask8(acc_byte)), !.opcode_i = OP_MAC8]
    /\ pc' = "m_edge1"
    /\ ghost' = [ghost EXCEPT
          !.now.sinceDrive = 0, !.now.qAtDrive = dutQ, !.now.prevInputs = Inputs(ports),
          !.now.portsAtDrive = Inputs(ports'), !.now.inflight = @ + 1,
          !.all.driven.mac8 = @ + 1]
    /\ UNCHANGED <<test, i, vec, dutQ, dutOut, toEdge, timer, verdict, diag, logged>>
    /\ UNCHANGED <<fnVars, fVars>>

mac8_expected == Wide(Mac8Expected(rs1_byte, rs2_byte, acc_byte))

\* assert got == expected of test_mac8_legacy holds; valid_o is not read
Mac8CheckOk ==
    /\ pc = "m_check"
    /\ got = mac8_expected
    /\ verdict' = [verdict EXCEPT !.mac8 = "passed"]
    /\ ghost' = [ghost EXCEPT !.all.checked.mac8 = @ + 1,
                              !.all.agree.mac8 = @ /\ valid = 1,
                              !.now.inflight = @ - 1]
    /\ EndTest("end")
    /\ UNCHANGED <<vec, ports, dutQ, dutOut, diag, logged>>
    /\ UNCHANGED <<fnVars, fVars>>

Mac8CheckFail ==
    /\ pc = "m_check"
    /\ got # mac8_expected
    /\ verdict' = [verdict EXCEPT !.mac8 = "failed"]
    /\ diag' = [diag EXCEPT !.mac8 = [text |-> "MAC8 failed", expected |-> mac8_expected, got |-> got]]
    /\ ghost' = [ghost EXCEPT !.all.checked.mac8 = @ + 1,
                              !.all.agree.mac8 = FALSE,
                              !.now.inflight = @ - 1]
    /\ EndTest("end")
    /\ UNCHANGED <<vec, ports, dutQ, dutOut, logged>>
    /\ UNCHANGED <<fnVars, fVars>>

Next ==
    \/ ResetWrite \/ TimerFire \/ ClockEdge
    \/ Drive \/ CheckValidFail \/ CheckMismatch \/ CheckOk \/ SimdPass
    \/ Mac8Drive \/ Mac8CheckOk \/ Mac8CheckFail

Spec == Init /\ [][Next]_vars

---------------------------------------------------------------------------
InitFn == FnInit /\ HIdle /\ FIdle

NextFn == FnPack \/ FnSimd \/ FnMac8

SpecFn == InitFn /\ [][NextFn]_vars

---------------------------------------------------------------------------
(* Properties of the pure computations (SpecFn) *)

\* C1: the expected value of test_simd_dot (dot product plus accumulator, then one
\* conditional correction by 2^32) is the true sum modulo 2^32 mapped back into
\* the signed 32-bit range, and so lies in [-2^31, 2^31 - 1]: it wraps.
C1_SimdWraparound ==
    fnOut.op = "simd" =>
        LET sum == SimdSum(fnIn.rs1_bytes, fnIn.rs2_bytes, fnIn.acc_val)
        IN  /\ fnOut.expected = Mod32Signed(sum)
            /\ InInt32(fnOut.expected)
            /\ WMinus(sum, fnOut.expected) \in {Wide(0), POW32, WMinus(Wide(0), POW32)}

\* a sum above 2^31 - 1 was wrapped to a negative value
C1_Witness ==
    /\ fnOut.op = "simd"
    /\ WGreater(SimdSum(fnIn.rs1_bytes, fnIn.rs2_bytes, fnIn.acc_val), INT32_MAX)
    /\ fnOut.expected.hi < 0

C10_PackRoundTrip ==
    fnOut.op = "pack" =>
        /\ InUInt32(fnOut.word)
        /\ fnOut.word.lo = (fnIn.bytes[1] % 256) + 256 * (fnIn.bytes[2] % 256)
        /\ fnOut.word.hi = (fnIn.bytes[3] % 256) + 256 * (fnIn.bytes[4] % 256)
        /\ fnOut.lanes = fnIn.bytes

\* lanes of both signs, the extreme ones included, came back
C10_Witness ==
    /\ fnOut.op = "pack"
    /\ fnIn.bytes = <<-128, -1, 1, 127>>
    /\ fnOut.lanes = <<-128, -1, 1, 127>>
    /\ fnOut.word = [hi |-> 32513, lo |-> 65408]

---------------------------------------------------------------------------
(* Properties of the harness (Spec) *)

\* C3: with the inputs driven right after an awaited edge returned, a read after
\* exactly one more awaited rising edge returns the value the register held when
\* the inputs were driven (stale: computed from the inputs held before), and a
\* read after exactly two returns the value registered from the vector just
\* driven; in every iteration of either test case.
C3_TimingLaw ==
    /\ pc \in {"edge2", "m_edge2"} =>
          /\ ghost.now.sinceDrive = 1
          /\ dutOut = ghost.now.qAtDrive
          /\ dutOut.src = ghost.now.prevInputs
    /\ pc \in {"check", "m_check"} =>
          /\ ghost.now.sinceDrive = 2
          /\ ghost.now.seen1 = ghost.now.qAtDrive
          /\ dutOut.def /\ ~dutOut.rst
          /\ dutOut.src = ghost.now.portsAtDrive
          /\ dutOut.src = Inputs(ports)

\* second iteration: the one-edge read was the previous vector's value, the
\* two-edge read is the value of the vector just driven
C3_Witness ==
    /\ test = "simd" /\ pc = "check" /\ i = 1
    /\ ghost.now.seen1.src = ghost.now.prevInputs
    /\ ghost.now.seen1.src # Inputs(ports)
    /\ dutOut.src = Inputs(ports)
    /\ dutOut.src.rd_i = vec.acc_val

\* C4: a test case reaches the passed verdict only if, for every vector it drove,
\* the captured valid_o was asserted and the captured result_o equalled the
\* golden value.
C4_PassedMeansAllAgreed ==
    \A t \in {"simd", "mac8"} :
        verdict[t] = "passed" => (ghost.all.agree[t] /\ ghost.all.checked[t] = ghost.all.driven[t])

Fields == {"iter", "rs1", "rs2", "acc", "expected", "got"}

\* C5: when valid or result disagrees at iteration i of test_simd_dot the test
\* case fails there, no later vector is driven, the summary is not logged, and
\* the failure message carries the iteration index, both lane lists, the
\* accumulator, and the expected and captured values.
C5_FirstFailureAbort ==
    verdict.simd = "failed" =>
        /\ ghost.all.driven.simd = ghost.all.failIter + 1
        /\ ghost.all.checked.simd = ghost.all.failIter + 1
        /\ ~logged
        /\ Fields \subseteq DOMAIN diag.simd
        /\ diag.simd.iter = ghost.all.failIter
        /\ diag.simd.rs1 = ghost.all.failVec.rs1_bytes
        /\ diag.simd.rs2 = ghost.all.failVec.rs2_bytes
        /\ diag.simd.acc = ghost.all.failVec.acc_val
        /\ diag.simd.expected = ghost.all.failExpected
        /\ diag.simd.got = ghost.all.failGot

BeforeFirstStimulus == pc = "m_drive" \/ (pc = "gen" /\ i = 0)

\* C6: when reset_dut has returned and nothing has been driven yet, rst_ni was
\* low with every input zero across at least one rising edge, rst_ni is high
\* again, one rising edge was awaited since, and the DUT's output register and
\* the value a read returns are defined; whichever way the 20 ns Timer and the
\* 10 ns clock are ordered.
C6_ResetLaw ==
    BeforeFirstStimulus =>
        /\ ghost.now.lowEdges >= 1
        /\ ports.known /\ ports.rst_ni = 1 /\ AllZero(ports)
        /\ ghost.now.highEdges = 1
        /\ dutQ.def /\ dutOut.def
        /\ ghost.all.driven[test] = 0

\* the Timer expired before the edge at 20 ns was processed, with no edge at 0 ns:
\* exactly one edge saw rst_ni low
C6_Witness ==
    /\ test = "simd" /\ pc = "gen" /\ i = 0
    /\ ghost.now.lowEdges = 1
    /\ dutOut.rst /\ dutQ.def

\* C7: in test_simd_dot at most one vector is in flight: exactly two rising edges
\* pass between driving the inputs of an iteration and sampling, the input ports
\* are not rewritten in between, the next inputs are written only after the
\* check, and i passing iterations have consumed exactly 2i rising edges.
C7_SingleInFlight ==
    /\ ghost.now.inflight \in {0, 1}
    /\ test = "simd" =>
        /\ pc = "gen" =>
              /\ ghost.now.edges = 2 * i /\ ghost.now.inflight = 0
              /\ ghost.all.driven.simd = i /\ ghost.all.checked.simd = i
        /\ pc \in {"edge1", "edge2", "check"} =>
              /\ ghost.now.inflight = 1
              /\ ghost.all.driven.simd = i + 1 /\ ghost.all.checked.simd = i
              /\ Inputs(ports) = ghost.now.portsAtDrive
              /\ ghost.now.edges = 2 * i + ghost.now.sinceDrive
        /\ pc = "check" => ghost.now.sinceDrive = 2

\* every iteration passed: 2 * NumVectors edges were consumed
C7_Witness ==
    /\ test = "simd" /\ pc = "gen" /\ i = NumVectors
    /\ ghost.now.edges = 2 * NumVectors
    /\ ghost.all.checked.simd = NumVectors

SmallPortsOk(p) ==
    /\ p.rst_ni \in {0, 1}
    /\ p.opcode_i \in {0, OP_MAC8, OP_SIMD_DOT}
    /\ p.hartid_i = 0 /\ p.id_i = 0 /\ p.rd_addr_i = 0

\* C8: every value written to an input port is an unsigned bit pattern of the
\* port's width: in [0, 2^32 - 1] for rs1_i, rs2_i and rd_i, never negative.
C8_PortWritesUnsigned ==
    ports.known =>
        /\ InUInt32(ports.rs1_i) /\ InUInt32(ports.rs2_i) /\ InUInt32(ports.rd_i)
        /\ SmallPortsOk(ports)

\* C8 as amended: rs1_i and rs2_i get unsigned 32-bit patterns and the other
\* ports non-negative values, but rd_i is written with the signed accumulator in
\* test_simd_dot, a value in [-2^31, 2^31 - 1]; elsewhere rd_i is in [0, 255].
C8_PortWritesInWidth ==
    ports.known =>
        /\ InUInt32(ports.rs1_i) /\ InUInt32(ports.rs2_i)
        /\ SmallPortsOk(ports)
        /\ ports.opcode_i = OP_SIMD_DOT => InInt32(ports.rd_i)
        /\ ports.opcode_i # OP_SIMD_DOT => (ports.rd_i.hi = 0 /\ ports.rd_i.lo <= 255)

\* a negative accumulator on rd_i beside operand words with the top bit set
C8_Witness ==
    /\ ports.known /\ ports.opcode_i = OP_SIMD_DOT
    /\ ports.rd_i.hi < 0
    /\ ports.rs1_i.hi >= 32768

---------------------------------------------------------------------------
(* extract_cva6_files.py: process_flist_file *)

\* A path is [abs, comps]: whether it is absolute, and its components.
Cwd == [abs |-> TRUE, comps |-> <<"w", "integration">>]

\* cva6_repo_dir, as defaulted by the script: '../cva6'
cva6_repo_dir == [abs |-> FALSE, comps |-> <<"..", "cva6">>]

\* os.path.join of two paths
Join(a, b) == IF b.abs THEN b ELSE [abs |-> a.abs, comps |-> a.comps \o b.comps]

\* os.path.normpath: "." dropped, "x/.." collapsed, ".." above the root dropped
RECURSIVE NormComps(_, _, _)
NormComps(rest, out, abs) ==
    IF rest = <<>> THEN out
    ELSE LET c == Head(rest)
             r == Tail(rest)
         IN  IF c = "." THEN NormComps(r, out, abs)
             ELSE IF c = ".."
                  THEN IF out # <<>> /\ out[Len(out)] # ".."
                       THEN NormComps(r, SubSeq(out, 1, Len(out) - 1), abs)
                       ELSE IF abs THEN NormComps(r, out, abs)
                       ELSE NormComps(r, Append(out, c), abs)
             ELSE NormComps(r, Append(out, c), abs)

Normpath(p) == [abs |-> p.abs, comps |-> NormComps(p.comps, <<>>, p.abs)]

\* os.path.abspath
Abspath(p) == Normpath(Join(Cwd, p))

\* flist_path = os.path.normpath(os.path.abspath(flist_path))
FlistKey(flist_path) == Normpath(Abspath(flist_path))

\* the path a "-F ref" line names: joined to cva6_repo_dir unless absolute, normalized
RefPath(ref) == Normpath(IF ref.abs THEN ref ELSE Join(cva6_repo_dir, ref))

\* the three file lists of the model, by their normalized absolute path
FA == [abs |-> TRUE, comps |-> <<"w", "cva6", "a">>]
FB == [abs |-> TRUE, comps |-> <<"w", "cva6", "b">>]
FC == [abs |-> TRUE, comps |-> <<"w", "cva6", "c">>]

\* the lines a file list may hold; FC never exists
Lines ==
    { [kind |-> "F", ref |-> [abs |-> FALSE, comps |-> <<"b", "..", "a">>]],
      [kind |-> "F", ref |-> [abs |-> TRUE, comps |-> <<"w", "cva6", ".", "b">>]],
      [kind |-> "F", ref |-> [abs |-> FALSE, comps |-> <<"c">>]],
      [kind |-> "sv", path |-> <<"core", "x.sv">>],
      [kind |-> "incdir", dir |-> <<"core", "include">>],
      [kind |-> "comment"] }

\* lines per file list
MaxLines == 2

Contents == UNION {[1..n -> Lines] : n \in 0..MaxLines}

\* what entering process_flist_file with this path does
\* variant: no look-up in processed_flists
EnterNoSeenCheck(path) ==
    IF path \notin DOMAIN fs THEN "missing" ELSE "read"
Enter(path) ==
    IF path \in processed THEN "seen"
    ELSE IF path \notin DOMAIN fs THEN "missing"
    ELSE "read"

Frame(path) == [path |-> path, lines |-> fs[path], idx |-> 1, files |-> <<>>, incs |-> <<>>]

Top == stack[Len(stack)]

SetTop(f) == [stack EXCEPT ![Len(stack)] = f]

Returned(from) == [from |-> from, files |-> <<>>, incs |-> <<>>]

InitFlist ==
    /\ FnIdle /\ HIdle
    /\ \/ fs = << >>
       \/ \E a \in Contents : fs = (FA :> a)
       \/ \E a \in Contents, b \in Contents : fs = (FA :> a) @@ (FB :> b)
    /\ stack = <<>>
    /\ processed = {}
    /\ reads = [p \in {FA, FB, FC} |-> 0]
    /\ ret = [from |-> "none", files |-> <<>>, incs |-> <<>>]
    /\ fdone = FALSE
    /\ steps = 0

\* the path the top-level call is given: '../cva6/a'
TopArg == Join(cva6_repo_dir, [abs |-> FALSE, comps |-> <<"a">>])

Busy == ~fdone /\ stack # <<>>

\* process_flist_file is called once, on an empty processed set
CanTop(outcome) ==
    ~fdone /\ stack = <<>> /\ steps = 0 /\ Enter(FlistKey(TopArg)) = outcome

\* top-level call, file list missing: warning, ([], [])
FTopMissing ==
    /\ CanTop("missing")
    /\ processed' = processed \cup {FlistKey(TopArg)}
    /\ ret' = Returned("missing")
    /\ fdone' = TRUE
    /\ steps' = steps + 1
    /\ UNCHANGED <<fs, stack, reads>>
    /\ UNCHANGED <<fnVars, hVars>>

\* top-level call, file list read
FTopRead ==
    /\ CanTop("read")
    /\ processed' = processed \cup {FlistKey(TopArg)}
    /\ reads' = [reads EXCEPT ![FlistKey(TopArg)] = @ + 1]
    /\ stack' = <<Frame(FlistKey(TopArg))>>
    /\ steps' = steps + 1
    /\ UNCHANGED <<fs, ret, fdone>>
    /\ UNCHANGED <<fnVars, hVars>>

AtLine(kind) == Busy /\ Top.idx <= Len(Top.lines) /\ Top.lines[Top.idx].kind = kind

\* comment, empty or unrecognised line
FLineSkip ==
    /\ AtLine("comment")
    /\ stack' = SetTop([Top EXCEPT !.idx = @ + 1])
    /\ steps' = steps + 1
    /\ UNCHANGED <<fs, processed, reads, ret, fdone>>
    /\ UNCHANGED <<fnVars, hVars>>

\* +incdir+ line
FLineIncdir ==
    /\ AtLine("incdir")
    /\ stack' = SetTop([Top EXCEPT !.idx = @ + 1, !.incs = Append(@, Top.lines[Top.idx].dir)])
    /\ steps' = steps + 1
    /\ UNCHANGED <<fs, processed, reads, ret, fdone>>
    /\ UNCHANGED <<fnVars, hVars>>

\* a source file line: made relative to integration/
FilePath(path) == IF Head(path) = ".." THEN path ELSE <<"..">> \o path

FLineSv ==
    /\ AtLine("sv")
    /\ stack' = SetTop([Top EXCEPT !.idx = @ + 1,
                                   !.files = Append(@, FilePath(Top.lines[Top.idx].path))])
    /\ steps' = steps + 1
    /\ UNCHANGED <<fs, processed, reads, ret, fdone>>
    /\ UNCHANGED <<fnVars, hVars>>

\* the file list a -F line names, as the recursive call keys it
Callee == FlistKey(RefPath(Top.lines[Top.idx].ref))

CanRef(outcome) == AtLine("F") /\ Enter(Callee) = outcome

\* -F line naming a file list already processed: the call returns ([], [])
FRefSeen ==
    /\ CanRef("seen")
    /\ ret' = Returned("seen")
    /\ stack' = SetTop([Top EXCEPT !.idx = @ + 1])
    /\ steps' = steps + 1
    /\ UNCHANGED <<fs, processed, reads, fdone>>
    /\ UNCHANGED <<fnVars, hVars>>

\* -F line naming a missing file list: warning, the call returns ([], [])
FRefMissing ==
    /\ CanRef("missing")
    /\ processed' = processed \cup {Callee}
    /\ ret' = Returned("missing")
    /\ stack' = SetTop([Top EXCEPT !.idx = @ + 1])
    /\ steps' = steps + 1
    /\ UNCHANGED <<fs, reads, fdone>>
    /\ UNCHANGED <<fnVars, hVars>>

\* -F line naming a new file list: the recursive call reads it
FRefRead ==
    /\ CanRef("read")
    /\ processed' = processed \cup {Callee}
    /\ reads' = [reads EXCEPT ![Callee] = @ + 1]
    /\ stack' = Append(stack, Frame(Callee))
    /\ steps' = steps + 1
    /\ UNCHANGED <<fs, ret, fdone>>
    /\ UNCHANGED <<fnVars, hVars>>

\* the loop over the lines is over, in the top-level call or in a recursive one
CanReturn(top) == Busy /\ (Len(stack) = 1) = top /\ Top.idx > Len(Top.lines)

\* a recursive call is through its lines: the caller extends its lists
FReturn ==
    /\ CanReturn(FALSE)
    /\ ret' = [from |-> "end", files |-> Top.files, incs |-> Top.incs]
    /\ LET caller == stack[Len(stack) - 1]
       IN  stack' = Append(SubSeq(stack, 1, Len(stack) - 2),
                           [caller EXCEPT !.idx = @ + 1,
                                          !.files = @ \o Top.files,
                                          !.incs = @ \o Top.incs])
    /\ steps' = steps + 1
    /\ UNCHANGED <<fs, processed, reads, fdone>>
    /\ UNCHANGED <<fnVars, hVars>>

\* the top-level call is through its lines
FFinish ==
    /\ CanReturn(TRUE)
    /\ ret' = [from |-> "end", files |-> Top.files, incs |-> Top.incs]
    /\ stack' = <<>>
    /\ fdone' = TRUE
    /\ steps' = steps + 1
    /\ UNCHANGED <<fs, processed, reads>>
    /\ UNCHANGED <<fnVars, hVars>>

NextFlist ==
    \/ FTopMissing \/ FTopRead
    \/ FLineSkip \/ FLineIncdir \/ FLineSv
    \/ FRefSeen \/ FRefMissing \/ FRefRead
    \/ FReturn \/ FFinish

\* some step of the resolver can be taken
CanStep ==
    \/ \E o \in {"missing", "read"} : CanTop(o)
    \/ \E k \in {"comment", "incdir", "sv"} : AtLine(k)
    \/ \E o \in {"seen", "missing", "read"} : CanRef(o)
    \/ \E t \in BOOLEAN : CanReturn(t)

SpecFlist == InitFlist /\ [][NextFlist]_vars

---------------------------------------------------------------------------
(* Properties of process_flist_file (SpecFlist) *)

RECURSIVE CountKind(_, _)
CountKind(lines, kind) ==
    IF lines = <<>> THEN 0
    ELSE (IF Head(lines).kind = kind THEN 1 ELSE 0) + CountKind(Tail(lines), kind)

RECURSIVE SumOver(_, _)
SumOver(S, kind) ==
    IF S = {} THEN 0
    ELSE LET p == CHOOSE q \in S : TRUE
         IN  CountKind(fs[p], kind) + SumOver(S \ {p}, kind)

ReadLists == {p \in DOMAIN fs : reads[p] >= 1}

\* one step for the top-level call, one per line and one per return of each file list
RECURSIVE StepBudget(_)
StepBudget(S) ==
    IF S = {} THEN 1
    ELSE LET p == CHOOSE q \in S : TRUE
         IN  Len(fs[p]) + 1 + StepBudget(S \ {p})

\* C9: process_flist_file terminates on every finite set of file lists, cyclic
\* or repeated references included: it is never stuck before the top-level call
\* returns and takes no more steps than the lines of the file lists allow; no
\* normalized path is read twice; a repeated, cyclic or missing reference
\* returns empty lists and the traversal goes on, so the result holds exactly
\* the source files and include directories of the file lists read, once each.
C9_FlistTerminates ==
    /\ \A p \in DOMAIN reads : reads[p] <= 1
    /\ steps <= StepBudget(DOMAIN fs)
    /\ fdone \/ CanStep
    /\ Len(stack) <= Cardinality(ReadLists)
    /\ ret.from \in {"seen", "missing"} => (ret.files = <<>> /\ ret.incs = <<>>)
    /\ fdone =>
          /\ stack = <<>>
          /\ Len(ret.files) = SumOver(ReadLists, "sv")
          /\ Len(ret.incs) = SumOver(ReadLists, "incdir")

\* a cycle a -> b -> a, spelled 'b/../a', and a missing file list, all in one run
C9_Witness ==
    /\ fdone
    /\ reads[FA] = 1 /\ reads[FB] = 1 /\ FC \in processed
    /\ \E k \in DOMAIN fs[FB] : fs[FB][k].kind = "F" /\ FlistKey(RefPath(fs[FB][k].ref)) = FA
    /\ Len(ret.files) = 1

===========================================================================
